---- MODULE Spec2Model ----
(***************************************************************************)
(* Model of src/PythonScript.py: the storm-track scraper.                  *)
(*                                                                         *)
(* Python values.  A str is a sequence of symbols: the symbol Sp is one    *)
(* blank, every other symbol is one blank-free token ("2020-06-30",        *)
(* "06:00:00", "N", "35").  Concatenation is \o, "" is << >>.  The other   *)
(* Python values a cell or a JSON field can hold (None, an int, a float)   *)
(* are one-symbol sequences of their own kind, so that every value of the  *)
(* program compares with every other.                                      *)
(***************************************************************************)
EXTENDS Integers, Sequences, FiniteSets, TLC

VARIABLES
    table,       \* SpecNorm/SpecBuild: the rows scrape_fourth_table returned
    monthArg,    \* SpecBuild: the month argument
    stage,       \* SpecNorm/SpecBuild: "raw", "normalized" or "built"
    processed,   \* the value add_missing_dates_and_empty_cells returned
    storm,       \* SpecBuild: what one pass of the storm loop produced
    cache,       \* Spec: the cache folder, file name -> content
    call,        \* Spec: the last call (arguments, the cache folder before it)
    outcome,     \* Spec: what the last call returned or raised
    obs          \* Spec: what the last call did (fetches, writes, prints)

vars == <<table, monthArg, stage, processed, storm, cache, call, outcome, obs>>

---------------------------------------------------------------------------
(* Symbols and values *)

Sym(k, a, b, c) == [k |-> k, a |-> a, b |-> b, c |-> c]

Sp == Sym("sp", 0, 0, 0)
\* a token that is neither a date, a time nor a number
Word(i) == Sym("w", i, 0, 0)
\* "YYYY-MM-DD"
DateW(y, m, d) == Sym("date", y, m, d)
\* "HH:MM:SS"
TimeW(h, mi, s) == Sym("time", h, mi, s)
\* "HH:MM"
HmW(h, mi) == Sym("hm", h, mi, 0)
\* a decimal numeral of value n written with z leading zeros
NumW(n, z) == Sym("num", n, z, 0)

None == <<Sym("None", 0, 0, 0)>>
IntV(n) == <<Sym("int", n, 0, 0)>>
FloatV(n) == <<Sym("float", n, 0, 0)>>

\* "N / A"
NA == <<Word(1), Sp, Word(2), Sp, Word(3)>>
\* "< 35"
SpeedBelow == <<Word(4), Sp, NumW(35, 0)>>
\* "> 1008"
PressureAbove == <<Word(5), Sp, NumW(1008, 0)>>

\* Python truthiness of None, a str or an int
Truthy(v) == v # None /\ v # << >> /\ v # IntV(0)

\* " " in s
HasSpace(s) == \E i \in 1..Len(s) : s[i] = Sp

\* s.split()[0], for s with at least one token
FirstToken(s) ==
    LET i == CHOOSE j \in 1..Len(s) : s[j] # Sp /\ \A l \in 1..(j - 1) : s[l] = Sp
    IN  <<s[i]>>

\* Columns of a RawRow (Python index + 1)
ColTime == 2
ColLat == 4
ColLong == 5
ColSpeed == 6
ColPressure == 7

---------------------------------------------------------------------------
(* add_missing_dates_and_empty_cells *)

\* line 70: data[0] = ['N / A' if not cell else cell for cell in data[0]]
FirstRowFill(row) == [i \in 1..Len(row) |-> IF row[i] = << >> THEN NA ELSE row[i]]

\* DateStep with the bare time left as it is
DateStepKeepsBare(row, last_date) ==
    IF HasSpace(row[ColTime])
    THEN [last_date |-> FirstToken(row[ColTime]), row |-> row]
    ELSE [last_date |-> last_date, row |-> row]

\* lines 72-76: the running date and the rewritten datetime cell
DateStep(row, last_date) ==
    LET datetime_cell == row[ColTime] IN
    IF HasSpace(datetime_cell)
    THEN [last_date |-> FirstToken(datetime_cell), row |-> row]
    ELSE [last_date |-> last_date,
          row |-> [row EXCEPT ![ColTime] =
                      IF Truthy(last_date) THEN last_date \o <<Sp>> \o datetime_cell
                      ELSE datetime_cell]]

\* FillCells inheriting from the column to the left
InheritFromNeighbourColumn(row, last_row) ==
    [i \in 1..Len(row) |->
        IF row[i] = NA THEN None
        ELSE IF ~Truthy(row[i]) /\ last_row # << >>
             THEN last_row[IF i > 1 THEN i - 1 ELSE i]
             ELSE row[i]]

\* FillCells without the "N / A" branch
FillKeepsMarker(row, last_row) ==
    [i \in 1..Len(row) |->
        IF ~Truthy(row[i]) /\ last_row # << >> THEN last_row[i] ELSE row[i]]

\* lines 77-81: the cell loop; last_row = << >> stands for last_row = None
FillCells(row, last_row) ==
    [i \in 1..Len(row) |->
        IF row[i] = NA THEN None
        ELSE IF ~Truthy(row[i]) /\ last_row # << >> THEN last_row[i]
             ELSE row[i]]

RECURSIVE NormalizeFrom(_, _, _, _)
\* lines 71-82: the row loop from row k on
NormalizeFrom(data, k, last_date, last_row) ==
    IF k > Len(data) THEN << >>
    ELSE LET ds == DateStep(data[k], last_date)
             row == FillCells(ds.row, last_row)
         IN  <<row>> \o NormalizeFrom(data, k + 1, ds.last_date, row)

add_missing_dates_and_empty_cells(data) ==
    IF data = << >> THEN data
    ELSE NormalizeFrom([data EXCEPT ![1] = FirstRowFill(data[1])], 1, None, << >>)

---------------------------------------------------------------------------
(* datetime.strptime / strftime / timestamp *)

IsLeap(y) == (y % 4 = 0 /\ y % 100 # 0) \/ y % 400 = 0

DaysInMonth(y, m) ==
    IF m = 2 THEN (IF IsLeap(y) THEN 29 ELSE 28)
    ELSE IF m \in {4, 6, 9, 11} THEN 30 ELSE 31

\* whether strptime(s, "%Y-%m-%d %H:%M:%S") succeeds on the str s: a date,
\* blanks, a time, every field in range; anything else is a ValueError
ParsesAsDateTime(s) ==
    /\ Len(s) >= 3
    /\ s[1].k = "date"
    /\ s[Len(s)].k = "time"
    /\ \A i \in 2..(Len(s) - 1) : s[i] = Sp
    /\ s[1].a \in 1..9999
    /\ s[1].b \in 1..12
    /\ s[1].c \in 1..DaysInMonth(s[1].a, s[1].b)
    /\ s[Len(s)].a \in 0..23
    /\ s[Len(s)].b \in 0..59
    /\ s[Len(s)].c \in 0..59

\* time_obj.month
MonthOf(s) == s[1].b

\* time_obj.strftime("%Y-%m-%d %H:%M")
FormatMinutes(s) == <<s[1], Sp, HmW(s[Len(s)].a, s[Len(s)].b)>>

\* days from 1970-01-01 to the civil date y-m-d
DaysFromCivil(y, m, d) ==
    LET yy  == IF m <= 2 THEN y - 1 ELSE y
        era == yy \div 400
        yoe == yy - era * 400
        mp  == IF m > 2 THEN m - 3 ELSE m + 9
        doy == (153 * mp + 2) \div 5 + d - 1
        doe == yoe * 365 + yoe \div 4 - yoe \div 100 + doy
    IN  era * 146097 + doe - 719468

\* the process's local UTC offset in seconds (the model runs in UTC)
LocalUtcOffset == 0

\* int(start_time.replace(second=0).timestamp())
EpochSeconds(s) ==
    DaysFromCivil(s[1].a, s[1].b, s[1].c) * 86400
        + s[Len(s)].a * 3600 + s[Len(s)].b * 60 - LocalUtcOffset

---------------------------------------------------------------------------
(* save_data_as_json: one storm *)

\* month=None
NoMonth == 0

\* the value of typhoon_class before the first assignment
Unbound == -1

\* lines 129-133: the working name from the heading's tokens
TyphoonName(heading) ==
    IF Len(heading) >= 2 THEN heading[Len(heading) - 1] ELSE "UNKNOWN"

\* TyphoonClass with "34 < speed" for "34 <= speed"
TyphoonClassGap(speed, previous) ==
    IF speed < 34 THEN 0
    ELSE IF 34 < speed /\ speed <= 63 THEN 1
    ELSE IF 64 <= speed /\ speed <= 82 THEN 2
    ELSE IF 83 <= speed /\ speed <= 95 THEN 3
    ELSE IF 96 <= speed /\ speed <= 112 THEN 4
    ELSE IF speed >= 113 THEN 5
    ELSE previous

\* lines 155-166: the if/elif chain; a speed no branch takes leaves
\* typhoon_class as the previous iteration set it
TyphoonClass(speed, previous) ==
    IF speed < 34 THEN 0
    ELSE IF 34 <= speed /\ speed <= 63 THEN 1
    ELSE IF 64 <= speed /\ speed <= 82 THEN 2
    ELSE IF 83 <= speed /\ speed <= 95 THEN 3
    ELSE IF 96 <= speed /\ speed <= 112 THEN 4
    ELSE IF speed >= 113 THEN 5
    ELSE previous

\* int(text) / float(text) succeed on a numeral
IsNumeral(text) == Len(text) = 1 /\ text[1].k = "num"

\* lines 140-148: the stored time, or the row is skipped
TimeStep(row, month) ==
    LET time == row[ColTime] IN
    IF Truthy(time) /\ ParsesAsDateTime(time)
    THEN IF month # NoMonth /\ MonthOf(time) # month
         THEN [skip |-> TRUE, time |-> time]
         ELSE [skip |-> FALSE, time |-> FormatMinutes(time)]
    ELSE [skip |-> FALSE, time |-> time]

\* line 173: "speed": str(speed) if speed else "< 35"
StoredSpeed(speed) == IF Truthy(speed) THEN <<NumW(speed[1].a, 0)>> ELSE SpeedBelow

\* line 174: "pressure": str(pressure) if pressure else "> 1008"
StoredPressure(pressure) == IF Truthy(pressure) THEN pressure ELSE PressureAbove

\* lines 149-176: one track point; cls is typhoon_class after the row
BuildPoint(row, time, previous) ==
    LET lat      == IF row[ColLat] # NA THEN row[ColLat] ELSE None
        long     == IF row[ColLong] # NA THEN row[ColLong] ELSE None
        cell     == IF row[ColSpeed] # NA THEN row[ColSpeed] ELSE None
        pressure == IF row[ColPressure] # NA THEN row[ColPressure] ELSE None
        speed    == IF Truthy(cell) THEN IntV(cell[1].a) ELSE cell
        cls      == IF Truthy(cell) THEN TyphoonClass(cell[1].a, previous) ELSE 0
    IN  IF Truthy(cell) /\ ~IsNumeral(cell) THEN [exc |-> "ValueError"]
        ELSE IF cls = Unbound THEN [exc |-> "UnboundLocalError"]
        ELSE IF Truthy(lat) /\ ~IsNumeral(lat) THEN [exc |-> "ValueError"]
        ELSE IF Truthy(long) /\ ~IsNumeral(long) THEN [exc |-> "ValueError"]
        ELSE [exc |-> "none", cls |-> cls,
              point |-> [time |-> time,
                         lat |-> IF Truthy(lat) THEN FloatV(lat[1].a) ELSE None,
                         long |-> IF Truthy(long) THEN FloatV(long[1].a) ELSE None,
                         speed |-> StoredSpeed(speed),
                         pressure |-> StoredPressure(pressure),
                         class |-> cls]]

RECURSIVE BuildPath(_, _, _, _)
\* lines 139-176: the row loop from row k on
BuildPath(rows, k, month, previous) ==
    IF k > Len(rows) THEN [exc |-> "none", path |-> << >>]
    ELSE LET ts == TimeStep(rows[k], month) IN
         IF ts.skip THEN BuildPath(rows, k + 1, month, previous)
         ELSE LET bp == BuildPoint(rows[k], ts.time, previous) IN
              IF bp.exc # "none" THEN [exc |-> bp.exc, path |-> << >>]
              ELSE LET rest == BuildPath(rows, k + 1, month, bp.cls) IN
                   [exc |-> rest.exc,
                    path |-> IF rest.exc = "none" THEN <<bp.point>> \o rest.path
                             ELSE << >>]

\* lines 177-183: strptime raises TypeError on None, ValueError on other text
StartTime(rows) ==
    LET first == rows[1][ColTime] IN
    IF first = None THEN [exc |-> "TypeError", start_time |-> None]
    ELSE IF ParsesAsDateTime(first)
         THEN [exc |-> "none", start_time |-> IntV(EpochSeconds(first))]
         ELSE [exc |-> "none", start_time |-> None]

NoTrack == [name |-> "", path |-> << >>, start_time |-> None]

\* lines 137-184 for one storm whose table has rows: the track appended to
\* all_typhoon_data, or the exception that leaves save_data_as_json
ProcessStorm(name, rows, month) ==
    LET normal == add_missing_dates_and_empty_cells(rows)
        built  == BuildPath(normal, 1, month, Unbound)
        st     == StartTime(normal)
    IN  IF built.exc # "none" THEN [exc |-> built.exc, track |-> NoTrack]
        ELSE IF st.exc # "none" THEN [exc |-> st.exc, track |-> NoTrack]
        ELSE [exc |-> "none",
              track |-> [name |-> name, path |-> built.path,
                         start_time |-> st.start_time]]

---------------------------------------------------------------------------
(* Inputs of the table specifications *)

MaxRows == 3
MaxRunRows == 4
MaxBuildRows == 2

June30 == DateW(2020, 6, 30)
July01 == DateW(2020, 7, 1)
SixAm == TimeW(6, 0, 30)
Num(n) == <<NumW(n, 0)>>

\* a row of the track table; columns 0 and 2 hold text no code reads
MkRow(dt, speed, pressure) ==
    <<<<Word(6)>>, dt, <<Word(7)>>, Num(12), Num(130), speed, pressure>>

DtCells == {<< >>, NA, <<SixAm>>, <<June30, Sp, SixAm>>, <<July01, Sp, SixAm>>}
ValCells == {<< >>, NA, Num(5), Num(7)}

SeqsUpTo(S, lo, hi) == UNION {[1..n -> S] : n \in lo..hi}

\* every datetime column against every speed column, and longer runs in the
\* speed column alone
NormTables ==
    SeqsUpTo({MkRow(dt, v, Num(1000)) : dt \in DtCells, v \in ValCells}, 0, MaxRows)
    \cup SeqsUpTo({MkRow(<<June30, Sp, SixAm>>, v, Num(1000)) : v \in ValCells},
                  1, MaxRunRows)

Idle ==
    /\ cache = << >>
    /\ call = << >>
    /\ outcome = << >>
    /\ obs = << >>

InitNorm ==
    /\ table \in NormTables
    /\ monthArg = NoMonth
    /\ stage = "raw"
    /\ processed = << >>
    /\ storm = << >>
    /\ Idle

\* add_missing_dates_and_empty_cells(table)
NormalizeTable ==
    /\ stage = "raw"
    /\ processed' = add_missing_dates_and_empty_cells(table)
    /\ stage' = "normalized"
    /\ UNCHANGED <<table, monthArg, storm, cache, call, outcome, obs>>

NextNorm == NormalizeTable

SpecNorm == InitNorm /\ [][NextNorm]_vars

---------------------------------------------------------------------------
(* Claims about add_missing_dates_and_empty_cells, under SpecNorm *)

Rows == 1..Len(table)
Cols == 1..7
IsBareTime(cell) == cell # None /\ cell # << >> /\ ~HasSpace(cell)
IsExplicit(cell) == cell # << >> /\ cell # NA

\* the nearest row before k whose input cell in column i is not empty (0: none)
NearestNonEmpty(k, i) ==
    IF \E j \in 1..(k - 1) : table[j][i] # << >>
    THEN CHOOSE j \in 1..(k - 1) :
            table[j][i] # << >> /\ \A l \in (j + 1)..(k - 1) : table[l][i] = << >>
    ELSE 0

\* a running date exists at row k: a datetime cell at or before k holds a
\* blank (an empty first-row cell is rewritten to "N / A" and so holds one)
RunningDateAt(k) ==
    \E j \in 1..k : HasSpace(table[j][ColTime]) \/ (j = 1 /\ table[1][ColTime] = << >>)

\* C5 as stated: after normalization no row's datetime cell is a bare time
\* with no date component.
C5_NoBareTime ==
    stage = "normalized" => \A k \in Rows : ~IsBareTime(processed[k][ColTime])

\* C5 amended: from the first row that carries a running date on (a datetime
\* cell holding a blank; an empty first-row cell counts), no datetime cell is
\* a bare time: it is null or a "<running date> <rest>" text holding a blank.
\* A bare time in a row before any running date is left as it was.
C5_NoBareTimeOnceDated ==
    stage = "normalized" =>
        \A k \in Rows :
            /\ RunningDateAt(k) =>
                   processed[k][ColTime] = None \/ HasSpace(processed[k][ColTime])
            /\ ~RunningDateAt(k) /\ IsBareTime(table[k][ColTime]) =>
                   processed[k][ColTime] = table[k][ColTime]

\* C5 witness: a bare time after a dated row was rewritten with the date.
C5_Witness ==
    /\ stage = "normalized"
    /\ Len(table) >= 2
    /\ table[1][ColTime] = <<June30, Sp, SixAm>>
    /\ table[2][ColTime] = <<SixAm>>
    /\ processed[2][ColTime] = <<June30, Sp, SixAm>>

\* C6 as stated: a cell empty in the input does not remain empty or null in
\* row k if an explicit value appeared in its column before k: it holds the
\* nearest preceding explicit value of its column.
C6_EmptyCellsFilled ==
    stage = "normalized" =>
        \A k \in Rows : \A i \in Cols :
            table[k][i] = << >> /\ (\E j \in 1..(k - 1) : IsExplicit(table[j][i])) =>
                /\ Truthy(processed[k][i])
                /\ i # ColTime =>
                       \E j \in 1..(k - 1) :
                           /\ IsExplicit(table[j][i])
                           /\ \A l \in (j + 1)..(k - 1) : ~IsExplicit(table[l][i])
                           /\ processed[k][i] = table[j][i]

\* C6 amended: in every column but the datetime column, a cell empty in the
\* input of a row after the first holds what the previous row holds after
\* normalization: the nearest preceding non-empty value of its column, or
\* null when that value is the "N / A" marker or the column was empty so far.
C6_EmptyCellsInherit ==
    stage = "normalized" =>
        \A k \in Rows \ {1} : \A i \in Cols \ {ColTime} :
            table[k][i] = << >> =>
                LET j == NearestNonEmpty(k, i) IN
                /\ processed[k][i] = processed[k - 1][i]
                /\ processed[k][i] = IF j = 0 \/ table[j][i] = NA THEN None
                                     ELSE table[j][i]

\* C6 witness: an empty speed cell under an explicit one was filled.
C6_Witness ==
    /\ stage = "normalized"
    /\ Len(table) >= 2
    /\ table[1][ColSpeed] = Num(5)
    /\ table[2][ColSpeed] = << >>
    /\ processed[2][ColSpeed] = Num(5)

\* C9: carry-forward is transitive and column-wise: in a non-datetime column
\* every cell of a run of empty cells directly after an explicit value v
\* becomes v, "N / A" becomes null in its own row, and an explicit value is
\* kept unchanged wherever it stands.
C9_CarryForward ==
    stage = "normalized" =>
        \A k \in Rows : \A i \in Cols \ {ColTime} :
            /\ \A j \in 1..(k - 1) :
                   (IsExplicit(table[j][i]) /\ \A l \in (j + 1)..k : table[l][i] = << >>)
                       => processed[k][i] = table[j][i]
            /\ table[k][i] = NA => processed[k][i] = None
            /\ IsExplicit(table[k][i]) => processed[k][i] = table[k][i]

SpeedColumn(rows) == [k \in 1..Len(rows) |-> rows[k][ColSpeed]]

\* C9 witness: the column [5, "", "N / A", 7] became [5, 5, null, 7].
C9_Witness ==
    /\ stage = "normalized"
    /\ SpeedColumn(table) = <<Num(5), << >>, NA, Num(7)>>
    /\ SpeedColumn(processed) = <<Num(5), Num(5), None, Num(7)>>

---------------------------------------------------------------------------
(* One pass of the storm loop, under SpecBuild *)

SpeedCells ==
    {<< >>, NA, <<NumW(34, 1)>>}
    \cup {Num(n) : n \in {0, 33, 34, 63, 64, 82, 83, 95, 96, 112, 113}}
PressureCells == {<< >>, NA, Num(0)}
BuildDtCells == {<< >>, <<June30, Sp, SixAm>>, <<July01, Sp, SixAm>>}
MonthArgs == {NoMonth, 6}

\* every datetime cell against every speed cell, and the pressure cells
BuildRows ==
    {MkRow(dt, v, Num(1000)) : dt \in BuildDtCells, v \in SpeedCells}
    \cup {MkRow(<<June30, Sp, SixAm>>, Num(50), p) : p \in PressureCells}

InitBuild ==
    /\ table \in SeqsUpTo(BuildRows, 1, MaxBuildRows)
    /\ monthArg \in MonthArgs
    /\ stage = "raw"
    /\ processed = << >>
    /\ storm = << >>
    /\ Idle

\* lines 137-184 of save_data_as_json for a storm named NAME
BuildStorm ==
    /\ stage = "raw"
    /\ processed' = add_missing_dates_and_empty_cells(table)
    /\ storm' = ProcessStorm("NAME", table, monthArg)
    /\ stage' = "built"
    /\ UNCHANGED <<table, monthArg, cache, call, outcome, obs>>

NextBuild == BuildStorm

SpecBuild == InitBuild /\ [][NextBuild]_vars

\* the rows the month filter keeps, in order: path[i] is built from row Kept[i]
Kept ==
    SelectSeq([k \in 1..Len(processed) |-> k],
              LAMBDA k : ~TimeStep(processed[k], monthArg).skip)

Built == stage = "built" /\ storm.exc = "none"

\* the class the claim gives a speed cell
ClaimedClass(cell) ==
    IF cell = None THEN 0
    ELSE LET n == cell[1].a IN
         CASE n < 34 -> 0
           [] n \in 34..63 -> 1
           [] n \in 64..82 -> 2
           [] n \in 83..95 -> 3
           [] n \in 96..112 -> 4
           [] n >= 113 -> 5

\* C7: every track point's class is in 0..5 and is the class of its own
\* row's speed cell by the thresholds (<34: 0, 34..63: 1, 64..82: 2,
\* 83..95: 3, 96..112: 4, >=113: 5, missing: 0), whatever the earlier rows.
C7_ClassOfOwnSpeed ==
    Built =>
        /\ Len(storm.track.path) = Len(Kept)
        /\ \A i \in 1..Len(Kept) :
               /\ storm.track.path[i].class \in 0..5
               /\ storm.track.path[i].class = ClaimedClass(processed[Kept[i]][ColSpeed])

\* C7 witness: a row of speed 113 (class 5) followed by one of speed 34
\* (class 1).
C7_Witness ==
    /\ Built
    /\ Len(storm.track.path) = 2
    /\ SpeedColumn(processed) = <<Num(113), Num(34)>>
    /\ storm.track.path[1].class = 5
    /\ storm.track.path[2].class = 1

\* C8 as stated: building a track raises nothing and appends the track, with
\* start_time the epoch seconds (seconds zeroed) of the first normalized
\* row's datetime cell when it parses, and null when it does not, a null
\* cell included.
C8_StartTimeOrNull ==
    stage = "built" =>
        /\ storm.exc = "none"
        /\ storm.track.name = "NAME"
        /\ LET first == processed[1][ColTime] IN
           storm.track.start_time =
               IF first # None /\ ParsesAsDateTime(first)
               THEN IntV(DaysFromCivil(first[1].a, first[1].b, first[1].c) * 86400
                         + first[3].a * 3600 + first[3].b * 60)
               ELSE None

\* C10 as stated: a numeric speed n >= 0 is stored as the text of n and only
\* an absent speed as "< 35"; a present pressure is stored as its text and
\* only an absent pressure as "> 1008".
C10_StoredText ==
    Built =>
        \A i \in 1..Len(Kept) :
            LET row == processed[Kept[i]]
                pt  == storm.track.path[i]
            IN  /\ pt.speed = IF row[ColSpeed] = None THEN SpeedBelow
                              ELSE Num(row[ColSpeed][1].a)
                /\ pt.pressure = IF row[ColPressure] = None THEN PressureAbove
                                 ELSE row[ColPressure]

---------------------------------------------------------------------------
(* The archive: the year index page and the storm detail pages *)

MaxLinks == 2

Years == {"2020"}
\* basin names a caller asks for; "Atlantis" is no basin of the archive
BasinArgs == {"Western Pacific", "Atlantis"}
\* basin names the index page's header row can carry
PageBasins == {"Western Pacific", "Eastern Pacific"}
LookupMonths == {NoMonth, 6, 7}

\* lines 11-18 and .get(basin_name, "unknown")
BasinAbbreviation(basin_name) ==
    CASE basin_name = "Northern Atlantic" -> "na"
      [] basin_name = "Eastern Pacific" -> "ep"
      [] basin_name = "Western Pacific" -> "wp"
      [] basin_name = "Northern Indian" -> "ni"
      [] basin_name = "Southern Indian" -> "si"
      [] basin_name = "Southern Pacific" -> "sp"
      [] OTHER -> "unknown"

\* lines 98 and 105: <folder>/<abbr>_<year>_data.json
CacheFile(year, basin_name) == <<BasinAbbreviation(basin_name), year>>

CacheFiles == {CacheFile(y, b) : y \in Years, b \in BasinArgs}

Missing == [kind |-> "missing", data |-> << >>]
Corrupt == [kind |-> "corrupt", data |-> << >>]
Json(data) == [kind |-> "json", data |-> data]

\* The detail pages behind the links.  Each answers the heading fetch and the
\* table fetch with a status of its own; rows are the fourth table's rows
\* after its two header rows.
StormPage(hStatus, h1, heading, tStatus, nTables, rows) ==
    [hStatus |-> hStatus, h1 |-> h1, heading |-> heading,
     tStatus |-> tStatus, nTables |-> nTables, rows |-> rows]

Pages ==
    <<  \* 1: a storm of June and July; the second row gives a bare time
        StormPage(200, TRUE, <<"Typhoon", "HAGIBIS", "2020">>, 200, 4,
                  <<MkRow(<<June30, Sp, SixAm>>, Num(64), Num(980)),
                    MkRow(<<SixAm>>, << >>, NA),
                    MkRow(<<July01, Sp, SixAm>>, Num(113), Num(950))>>),
        \* 2: the heading fetch fails
        StormPage(404, FALSE, << >>, 200, 4, << >>),
        \* 3: the table fetch fails
        StormPage(200, TRUE, <<"Storm", "THREE", "2020">>, 404, 0, << >>),
        \* 4: a one-token heading and one row of July
        StormPage(200, TRUE, <<"LONE">>, 200, 4,
                  <<MkRow(<<July01, Sp, SixAm>>, Num(0), Num(1000))>>),
        \* 5: the first row's datetime cell is empty
        StormPage(200, TRUE, <<"Storm", "FIVE", "2020">>, 200, 4,
                  <<MkRow(<< >>, Num(30), Num(1000)),
                    MkRow(<<June30, Sp, SixAm>>, Num(40), Num(1000))>>),
        \* 6: fewer than four tables on the page
        StormPage(200, TRUE, <<"Storm", "SIX", "2020">>, 200, 3, << >>),
        \* 7: no h1 on the page
        StormPage(200, FALSE, << >>, 200, 4, << >>) >>

PageIds == 1..Len(Pages)

IsInjective(l) == \A i, j \in 1..Len(l) : l[i] = l[j] => i = j

\* the links of one basin column: distinct detail pages
LinkLists == {l \in SeqsUpTo(PageIds, 0, MaxLinks) : IsInjective(l)}

\* what the archive answers to one call: the index page's status, its number
\* of layout tables, the basins of the second table's header row and the
\* links of the requested basin's column
Web(status, tables, basins, links) ==
    [status |-> status, tables |-> tables, basins |-> basins, links |-> links]

Webs(basin_name) ==
    {Web(404, 0, {}, << >>), Web(200, 1, {}, << >>)}
    \cup {Web(200, 2, B, << >>) : B \in {C \in SUBSET PageBasins : basin_name \notin C}}
    \cup {Web(200, 2, PageBasins, l) : l \in {m \in LinkLists : basin_name \in PageBasins}}

\* ProcessStorm on each page's rows, for each month argument
PageStorm ==
    [p \in PageIds |-> [m \in LookupMonths |->
        IF Pages[p].rows = << >> THEN [exc |-> "none", track |-> NoTrack]
        ELSE ProcessStorm(TyphoonName(Pages[p].heading), Pages[p].rows, m)]]

\* the unfiltered first normalized row's datetime cell of each page
PageFirstCell ==
    [p \in PageIds |->
        IF Pages[p].rows = << >> THEN None
        ELSE add_missing_dates_and_empty_cells(Pages[p].rows)[1][ColTime]]

---------------------------------------------------------------------------
(* save_data_as_json and scrape_typhoon_data *)

\* lines 126-136 and 184 for the link to page p: how the loop body ends
VisitLink(p, month) ==
    LET page == Pages[p] IN
    IF page.hStatus # 200 THEN "heading_http_error"
    ELSE IF ~page.h1 \/ page.heading = << >> THEN "no_heading"
    ELSE IF page.tStatus # 200 THEN "table_http_error"
    ELSE IF page.nTables < 4 THEN "no_table"
    ELSE IF page.rows = << >> THEN "empty_table"
    ELSE IF PageStorm[p][month].exc # "none" THEN "raised"
    ELSE "appended"

NoLoop ==
    [exc |-> "none", data |-> << >>, visited |-> << >>, heading |-> 0,
     table |-> 0, firsts |-> << >>]

\* one pass of the loop body: how it ended, the storm's result, its first
\* normalized datetime cell, and what the remaining links give
LoopStep(how, result, first, rest) ==
    IF how = "raised"
    THEN [NoLoop EXCEPT !.exc = result.exc, !.visited = <<how>>,
                        !.heading = 1, !.table = 1]
    ELSE [exc |-> rest.exc,
          data |-> IF how = "appended" /\ rest.exc = "none"
                   THEN <<result.track>> \o rest.data ELSE rest.data,
          visited |-> <<how>> \o rest.visited,
          heading |-> 1 + rest.heading,
          table |-> (IF how \in {"heading_http_error", "no_heading"} THEN 0 ELSE 1)
                        + rest.table,
          firsts |-> IF how = "appended" /\ rest.exc = "none"
                     THEN <<first>> \o rest.firsts ELSE rest.firsts]

RECURSIVE StormLoop(_, _, _)
\* lines 124-184: the loop over the basin's links from link k on
StormLoop(links, k, month) ==
    IF k > Len(links) THEN NoLoop
    ELSE LoopStep(VisitLink(links[k], month), PageStorm[links[k]][month],
                  PageFirstCell[links[k]], StormLoop(links, k + 1, month))

\* what a call did, as far as the claims speak of it
NoObs ==
    [index |-> 0, idxStatus |-> 0, mapBuilt |-> FALSE, basins |-> {},
     reported |-> FALSE, listed |-> {}, nLinks |-> 0, visited |-> << >>,
     heading |-> 0, table |-> 0, wrote |-> {}, firsts |-> << >>]

Returned(data) == [raised |-> "none", returned |-> "data", data |-> data]
ReturnedNone == [raised |-> "none", returned |-> "None", data |-> << >>]
Raised(exc) == [raised |-> exc, returned |-> "nothing", data |-> << >>]

\* BasinLinks as links_by_basin.get(basin_name, [])
BasinLinksDefaultEmpty(web, basin_name) ==
    [found |-> TRUE, links |-> IF basin_name \in web.basins THEN web.links ELSE << >>]

\* lines 121 and 125: links_by_basin[basin_name], when basin_name is a key
BasinLinks(web, basin_name) ==
    [found |-> basin_name \in web.basins,
     links |-> IF basin_name \in web.basins THEN web.links ELSE << >>]

\* what the call did up to the index fetch, and up to the BasinLinkMap
Fetched(web) == [NoObs EXCEPT !.index = 1, !.idxStatus = web.status]
MapBuilt(web) == [Fetched(web) EXCEPT !.mapBuilt = TRUE, !.basins = web.basins]

\* lines 184-186: after the loop, the exception leaves the function or the
\* Dataset is cached and returned
AfterLoop(file, web, loop, files) ==
    IF loop.exc # "none"
    THEN [outcome |-> Raised(loop.exc), cache |-> files,
          obs |-> [MapBuilt(web) EXCEPT !.nLinks = Len(web.links),
                       !.visited = loop.visited, !.heading = loop.heading,
                       !.table = loop.table, !.firsts = loop.firsts]]
    ELSE [outcome |-> Returned(loop.data),
          cache |-> [files EXCEPT ![file] = Json(loop.data)],
          obs |-> [MapBuilt(web) EXCEPT !.nLinks = Len(web.links),
                       !.visited = loop.visited, !.heading = loop.heading,
                       !.table = loop.table, !.firsts = loop.firsts,
                       !.wrote = {file}]]

\* lines 117-186.  fetch_year_page returns None on a status other than 200
\* and BeautifulSoup(None, 'html.parser') raises TypeError (line 29).
SaveDataAsJson(year, basin_name, month, web, files) ==
    IF web.status # 200
    THEN [outcome |-> Raised("TypeError"), obs |-> Fetched(web), cache |-> files]
    ELSE IF web.tables < 2
    THEN [outcome |-> ReturnedNone, obs |-> Fetched(web), cache |-> files]
    ELSE IF web.basins = {}
    THEN [outcome |-> ReturnedNone, obs |-> MapBuilt(web), cache |-> files]
    ELSE IF ~BasinLinks(web, basin_name).found
    THEN [outcome |-> ReturnedNone,
          obs |-> [MapBuilt(web) EXCEPT !.reported = TRUE, !.listed = web.basins],
          cache |-> files]
    ELSE AfterLoop(CacheFile(year, basin_name), web,
                   StormLoop(BasinLinks(web, basin_name).links, 1, month), files)

\* lines 103-115: the Dataset, or None for a missing or an undecodable file
LoadCache(year, basin_name, files) ==
    LET content == files[CacheFile(year, basin_name)] IN
    IF content.kind = "json" THEN Returned(content.data) ELSE ReturnedNone

\* lines 188-194: "if data" is false for None and for an empty list
ScrapeTyphoonData(year, basin_name, month, web, files) ==
    LET data == LoadCache(year, basin_name, files) IN
    IF data.returned = "data" /\ data.data # << >>
    THEN [outcome |-> data, obs |-> NoObs, cache |-> files]
    ELSE SaveDataAsJson(year, basin_name, month, web, files)

Init ==
    /\ cache \in [CacheFiles -> {Missing, Corrupt}]
    /\ call = [made |-> FALSE, year |-> "", basin |-> "", month |-> NoMonth,
               pre |-> cache]
    /\ outcome = ReturnedNone
    /\ obs = NoObs
    /\ table = << >>
    /\ monthArg = NoMonth
    /\ stage = "idle"
    /\ processed = << >>
    /\ storm = << >>

Apply(year, basin_name, month, result) ==
    /\ call' = [made |-> TRUE, year |-> year, basin |-> basin_name, month |-> month,
                pre |-> cache]
    /\ outcome' = result.outcome
    /\ obs' = result.obs
    /\ cache' = result.cache
    /\ UNCHANGED <<table, monthArg, stage, processed, storm>>

\* a call of scrape_typhoon_data(year, basin_name, month); the archive is
\* asked only when the cached value is not truthy
Lookup ==
    \E year \in Years, basin_name \in BasinArgs, month \in LookupMonths :
        LET data == LoadCache(year, basin_name, cache) IN
        \E web \in IF data.returned = "data" /\ data.data # << >>
                   THEN {Web(0, 0, {}, << >>)} ELSE Webs(basin_name) :
            Apply(year, basin_name, month,
                  ScrapeTyphoonData(year, basin_name, month, web, cache))

Next == Lookup

Spec == Init /\ [][Next]_vars

---------------------------------------------------------------------------
(* Claims about the lookup, under Spec *)

\* the cache file of the last call, as the call found it
PreFile == call.pre[CacheFile(call.year, call.basin)]

\* a stored time that strptime parsed: "YYYY-MM-DD HH:MM"
IsStoredMinute(time) == Len(time) = 3 /\ time[1].k = "date" /\ time[3].k = "hm"

NoDetailFetch == obs.heading = 0 /\ obs.table = 0
NoFetch == obs.index = 0 /\ NoDetailFetch

\* C1 as stated: a lookup with month m in 1..12, after any earlier lookups,
\* returns tracks none of whose parsed path entries lies outside month m,
\* each start_time being that of the unfiltered first normalized row.
C1_MonthFilterExclusive ==
    call.made /\ call.month \in 1..12 /\ outcome.returned = "data" =>
        /\ \A i \in 1..Len(outcome.data) :
               \A j \in 1..Len(outcome.data[i].path) :
                   LET time == outcome.data[i].path[j].time IN
                   IsStoredMinute(time) => time[1].b = call.month
        /\ obs.index = 1 =>
               \A i \in 1..Len(outcome.data) :
                   outcome.data[i].start_time =
                       IF obs.firsts[i] # None /\ ParsesAsDateTime(obs.firsts[i])
                       THEN IntV(EpochSeconds(obs.firsts[i])) ELSE None

\* C2 as stated: the lookup returns the cached Dataset, with no fetch and
\* no cache write, exactly when the cache file exists and deserializes,
\* whatever Dataset it holds; a missing and a corrupted file both run the
\* scrape pipeline, whose result is then cached, and the decoding error
\* never leaves the lookup.
C2_CachePresenceSoleSwitch ==
    call.made =>
        /\ outcome.raised # "JSONDecodeError"
        /\ PreFile.kind = "json" <=>
               (NoFetch /\ obs.wrote = {} /\ outcome = Returned(PreFile.data))
        /\ PreFile.kind # "json" =>
               /\ obs.index = 1
               /\ outcome.returned = "data" =>
                      cache[CacheFile(call.year, call.basin)] = Json(outcome.data)

Appended == {i \in 1..Len(obs.visited) : obs.visited[i] = "appended"}

\* C3 as stated: a status other than success at the index fetch, a heading
\* fetch or a table fetch is a soft failure: the lookup returns null, or
\* skips that storm and goes on to the remaining links, and no exception
\* leaves it.  (Runs in which the processing of another storm's rows raised
\* are left aside: that exception is not the failed fetch's.)
C3_HttpFailureIsSoft ==
    /\ call.made
    /\ \A i \in 1..Len(obs.visited) : obs.visited[i] # "raised"
    /\ \/ obs.index = 1 /\ obs.idxStatus # 200
       \/ \E i \in 1..Len(obs.visited) :
              obs.visited[i] \in {"heading_http_error", "table_http_error"}
    => /\ outcome.raised = "none"
       /\ \/ outcome.returned = "None"
          \/ /\ outcome.returned = "data"
             /\ Len(obs.visited) = obs.nLinks
             /\ Len(outcome.data) = Cardinality(Appended)

UnknownBasin == call.made /\ obs.mapBuilt /\ call.basin \notin obs.basins

\* C4 as stated: a basin name that is no key of the BasinLinkMap makes
\* save_data_as_json report the valid basin names and return null, with no
\* detail page fetched and every cache file unchanged.
C4_UnknownBasinReported ==
    UnknownBasin =>
        /\ obs.reported /\ obs.listed = obs.basins
        /\ outcome = ReturnedNone
        /\ NoDetailFetch
        /\ obs.wrote = {} /\ cache = call.pre

\* C4 amended: a basin name that is no key of the BasinLinkMap makes
\* save_data_as_json return null with no detail page fetched and every
\* cache file unchanged; it reports the valid basin names when the map has
\* at least one basin and reports nothing when the map is empty.
C4_UnknownBasinNoScrape ==
    UnknownBasin =>
        /\ obs.reported <=> obs.basins # {}
        /\ obs.reported => obs.listed = obs.basins
        /\ outcome = ReturnedNone
        /\ NoDetailFetch
        /\ obs.wrote = {} /\ cache = call.pre

\* C4 witness: "Atlantis" asked of a map that holds basins: reported, null,
\* nothing fetched beyond the index page.
C4_Witness ==
    /\ UnknownBasin
    /\ call.basin = "Atlantis"
    /\ obs.basins = PageBasins
    /\ obs.reported
    /\ obs.index = 1
    /\ outcome = ReturnedNone

====
